---- MODULE Spec2Model ----
(***************************************************************************)
(* DialLanguageModelComponent                                              *)
(* (src/backend/base/langflow/components/epam/dial_language_model.py):     *)
(* the Model Builder (build_model), the Model Lister (fetch_models) and    *)
(* the refresh coordinator (update_build_config -> refresh_models).        *)
(*                                                                         *)
(* A component attribute is a record [has, v]: has = FALSE is an attribute *)
(* for which hasattr(self, name) is false, and reading it raises           *)
(* AttributeError.  Strings the code tests for truth use "" for the falsy  *)
(* values (None and the empty string).  The host is a sequence of          *)
(* characters so that rstrip('/') is computed.                             *)
(***************************************************************************)
EXTENDS Integers, Sequences, FiniteSets, TLC

\* ------------------------------------------------------------- bounds
\* Longest "data" array of a gateway response.
MaxData == 2

\* ------------------------------------------------- program constants
FALLBACK_MODELS == <<"gpt-4o">>

AZURE_OPENAI_API_VERSIONS == <<"2024-02-01">>

\* value=0.7 of the temperature slider, in hundredths
DEFAULT_TEMPERATURE == 70

\* (mutant) api_version refreshes the models too
MutRefreshFields == {"dial_api_host", "dial_api_key", "model_name", "api_version"}

\* the field names for which update_build_config refreshes the models
RefreshFields == {"dial_api_host", "dial_api_key", "model_name"}

\* ---------------------------------------------------------- helpers
Range(s) == {s[i] : i \in 1..Len(s)}

Attr(v) == [has |-> TRUE, v |-> v]

\* str.rstrip('/')
RECURSIVE RStrip(_)
RStrip(s) ==
    IF s # <<>> /\ s[Len(s)] = "/" THEN RStrip(SubSeq(s, 1, Len(s) - 1)) ELSE s

\* models_url = f"{api_host}/openai/deployments?api-version={self.api_version}"
ModelsUrl(host, version) ==
    [host |-> RStrip(host), path |-> "/openai/deployments", api_version |-> version]

NoUrl == [host |-> <<>>, path |-> "", api_version |-> ""]

\* ------------------------------------------------ gateway responses
\* An entry of the "data" array: a JSON object with an id, a JSON object
\* without one (model.get("id") is None), or a JSON value that is no object
\* (model.get raises AttributeError).
Entry(id) == [dict |-> TRUE, has_id |-> TRUE, id |-> id]
NoIdEntry == [dict |-> TRUE, has_id |-> FALSE, id |-> ""]
NonDictEntry == [dict |-> FALSE, has_id |-> FALSE, id |-> ""]

ModelIds == {"gpt-4o", "gpt-4"}

\* The entries that are JSON objects.
Entries == {Entry(id) : id \in ModelIds \cup {""}} \cup {NoIdEntry}

\* The arrays of objects, and the arrays with a value that is no object after
\* at most one object.
DataArrays ==
    UNION {[1..n -> Entries] : n \in 0..MaxData}
    \cup {<<NonDictEntry>>} \cup {<<e, NonDictEntry>> : e \in Entries}

\* net: "ok" | "error" (connection error) | "timeout"
\* json: "malformed" (response.json() raises) | "array" (a JSON value that is
\*       no object) | "object"
\* data: "missing" (no "data" key) | "null" ("data": null) | "array"
Response(net, status, json, data, items) ==
    [net |-> net, status |-> status, json |-> json, data |-> data, items |-> items]

Responses ==
    {Response("error", 0, "malformed", "missing", <<>>),
     Response("timeout", 0, "malformed", "missing", <<>>),
     Response("ok", 500, "malformed", "missing", <<>>),
     Response("ok", 200, "malformed", "missing", <<>>),
     Response("ok", 200, "array", "missing", <<>>),
     Response("ok", 200, "object", "missing", <<>>),
     Response("ok", 200, "object", "null", <<>>)}
    \cup {Response("ok", 200, "object", "array", d) : d \in DataArrays}

NoResponse == Response("none", 0, "malformed", "missing", <<>>)

\* ------------------------------------------------------- fetch_models
\* model.get("id") of an entry that is an object
GetId(e) == IF e.has_id THEN e.id ELSE ""

\* (mutant) the comprehension without its filter
MutExtractIds(items) == [i \in 1..Len(items) |-> GetId(items[i])]

\* [model.get("id") for model in data.get("data", []) if model.get("id")]
RECURSIVE ExtractIds(_)
ExtractIds(items) ==
    IF items = <<>> THEN <<>>
    ELSE IF GetId(Head(items)) # ""
         THEN <<GetId(Head(items))>> \o ExtractIds(Tail(items))
         ELSE ExtractIds(Tail(items))

\* The comprehension raises when response.json() raises, when the body is no
\* object (data.get), when "data" is null (iteration) and when an entry is no
\* object (model.get).
ParseRaises(resp) ==
    \/ resp.json # "object"
    \/ resp.data = "null"
    \/ resp.data = "array" /\ \E i \in 1..Len(resp.items) : ~resp.items[i].dict

Parsed(resp) == IF resp.data = "array" THEN ExtractIds(resp.items) ELSE <<>>

\* The outcome of one call of fetch_models:
\*   kind    "return" | "raise"
\*   models  the returned list
\*   gets    the number of session.get calls made
\*   url     the URL of the request
\*   cached  the call assigned _available_models and _models_fetched
Outcome(kind, models, gets, url, cached) ==
    [kind |-> kind, models |-> models, gets |-> gets, url |-> url, cached |-> cached]

NoOutcome == Outcome("none", <<>>, 0, NoUrl, FALSE)

FetchModels(host, key, version, resp) ==
    IF ~host.has \/ host.v = <<>> \/ ~key.has \/ key.v = ""
    THEN Outcome("return", FALLBACK_MODELS, 0, NoUrl, FALSE)
    ELSE IF ~version.has
    THEN Outcome("raise", <<>>, 0, NoUrl, FALSE)
    ELSE LET url == ModelsUrl(host.v, version.v) IN
         IF resp.net # "ok" THEN Outcome("return", FALLBACK_MODELS, 1, url, FALSE)
         ELSE IF resp.status # 200 THEN Outcome("return", FALLBACK_MODELS, 1, url, FALSE)
         ELSE IF ParseRaises(resp) THEN Outcome("return", FALLBACK_MODELS, 1, url, FALSE)
         ELSE IF Parsed(resp) # <<>> THEN Outcome("return", Parsed(resp), 1, url, TRUE)
         ELSE Outcome("return", FALLBACK_MODELS, 1, url, FALSE)

\* ----------------------------------------------------- refresh_models
\* not hasattr(self, "model_name") or self.model_name not in models
NeedsSelect(name, models) == ~name.has \/ name.v \notin Range(models)

\* (mutant) the fetched list is appended to the option list
MutNewOptions(old, models) == old \o models

\* self.inputs[i].options = models: the option list is replaced wholesale
NewOptions(old, models) == models

\* -------------------------------------------------------- build_model
\* (mutant) max_tokens passed as it is
MutOrNone(n) == [none |-> FALSE, val |-> n]

\* max_tokens or None
OrNone(n) == IF n = 0 THEN [none |-> TRUE, val |-> 0] ELSE [none |-> FALSE, val |-> n]

\* self.stream if hasattr(self, "stream") else False
StreamOf(s) == IF s.has THEN s.v ELSE FALSE

\* The keyword arguments AzureChatOpenAI is constructed with.
Handle(endpoint, deployment, version, key, temp, streaming, maxtok) ==
    [azure_endpoint |-> endpoint, azure_deployment |-> deployment,
     api_version |-> version, api_key |-> key, temperature |-> temp,
     streaming |-> streaming, max_tokens |-> maxtok]

NoHandle == Handle(<<>>, "", "", "", 0, FALSE, OrNone(0))

\* The errors the constructor of the underlying client may raise.
CtorErrors == {"validation error", "missing credentials"}

\* (mutant) the generic error without the original message
MutInitError(e) == [exc |-> "ValueError", text |-> "Could not initialize DIAL API client: ", cause |-> ""]

\* ValueError(f"Could not initialize DIAL API client: {e}")
InitError(e) == [exc |-> "ValueError", text |-> "Could not initialize DIAL API client: ", cause |-> e]

NoError == [exc |-> "", text |-> "", cause |-> ""]

AttributeError == [exc |-> "AttributeError", text |-> "", cause |-> ""]

\* --------------------------------------------------------------- state
VARIABLES
    dial_api_host,      \* self.dial_api_host
    dial_api_key,       \* self.dial_api_key
    api_version,        \* self.api_version
    model_name,         \* self.model_name
    stream,             \* self.stream
    temperature,        \* self.temperature, in hundredths
    max_tokens,         \* self.max_tokens
    input_options,      \* options of the model_name entry of self.inputs
    input_value,        \* value of the model_name entry of self.inputs
    available_models,   \* the class attribute _available_models
    models_fetched,     \* the class attribute _models_fetched
    build_config,       \* the model_name entry of the build_config passed and returned
    call,               \* the last operation: its name, field and the selection before it
    fetched,            \* the last operation's call of fetch_models: response and outcome
    built,              \* the last operation's build_model outcome
    pc,                 \* position of each concurrent refresh
    loc                 \* local variables of each concurrent refresh

config == <<dial_api_host, dial_api_key, api_version, model_name, stream, temperature, max_tokens>>

cache == <<available_models, models_fetched>>

vars == <<dial_api_host, dial_api_key, api_version, model_name, stream, temperature,
          max_tokens, input_options, input_value, available_models, models_fetched,
          build_config, call, fetched, built, pc, loc>>

Absent(v) == [has |-> FALSE, v |-> v]

Hosts == {Absent(<<>>), Attr(<<>>), Attr(<<"h", "/">>)}
Keys == {Absent(""), Attr(""), Attr("k")}
Versions == {Absent(""), Attr(AZURE_OPENAI_API_VERSIONS[1])}
Names == {Absent("")} \cup {Attr(id) : id \in ModelIds}
Streams == {Absent(FALSE), Attr(FALSE), Attr(TRUE)}
Temperatures == {0, DEFAULT_TEMPERATURE}
MaxTokens == {0, 256}

\* field_name of update_build_config; "" is the default None
Fields == RefreshFields \cup {"api_version", "temperature", "max_tokens", "stream", ""}

Procs == {1, 2}

\* build_config without a model_name entry: build_config.get("model_name", {})
NoEntry == [has |-> FALSE, options |-> <<>>, value |-> ""]

NoCall == [op |-> "none", field |-> "", prev |-> Absent(""), again |-> FALSE]

NoFetch == [resp |-> NoResponse, out |-> NoOutcome]

NoBuilt == [kind |-> "none", error |-> NoError, handle |-> NoHandle, ctor_calls |-> 0, ctor_error |-> ""]

NoLocal == [resp |-> NoResponse, out |-> NoOutcome, models |-> <<>>, config |-> NoEntry]

\* The class body: the declared inputs and the class-level cache.
InitClass ==
    /\ stream = Attr(FALSE)
    /\ temperature = DEFAULT_TEMPERATURE
    /\ max_tokens = 0
    /\ input_options = FALLBACK_MODELS
    /\ input_value = FALLBACK_MODELS[1]
    /\ available_models = <<>>
    /\ models_fetched = FALSE
    /\ build_config \in {[has |-> TRUE, options |-> FALLBACK_MODELS, value |-> FALLBACK_MODELS[1]],
                         NoEntry}
    /\ call = NoCall
    /\ fetched = NoFetch
    /\ built = NoBuilt
    /\ pc = [p \in Procs |-> "idle"]
    /\ loc = [p \in Procs |-> NoLocal]

\* A component constructed with the declared defaults.
Init ==
    /\ dial_api_host = Attr(<<>>)
    /\ dial_api_key = Attr("")
    /\ api_version = Attr(AZURE_OPENAI_API_VERSIONS[1])
    /\ model_name = Attr(FALLBACK_MODELS[1])
    /\ InitClass

\* The host framework sets an attribute of the component from the form.
Configure ==
    /\ \/ dial_api_host' \in Hosts /\ UNCHANGED <<dial_api_key, api_version, model_name>>
       \/ dial_api_key' \in Keys /\ UNCHANGED <<dial_api_host, api_version, model_name>>
       \/ api_version' \in Versions /\ UNCHANGED <<dial_api_host, dial_api_key, model_name>>
       \/ model_name' \in Names /\ UNCHANGED <<dial_api_host, dial_api_key, api_version>>
    /\ call' = [NoCall EXCEPT !.op = "configure"]
    /\ fetched' = NoFetch
    /\ built' = NoBuilt
    /\ UNCHANGED <<stream, temperature, max_tokens, input_options, input_value,
                   available_models, models_fetched, build_config, pc, loc>>

\* The host framework sets one of the attributes only build_model reads.
ConfigureBuild ==
    /\ \/ stream' \in Streams /\ UNCHANGED <<temperature, max_tokens>>
       \/ temperature' \in Temperatures /\ UNCHANGED <<stream, max_tokens>>
       \/ max_tokens' \in MaxTokens /\ UNCHANGED <<stream, temperature>>
    /\ call' = [NoCall EXCEPT !.op = "configure"]
    /\ fetched' = NoFetch
    /\ built' = NoBuilt
    /\ UNCHANGED <<dial_api_host, dial_api_key, api_version, model_name, input_options,
                   input_value, available_models, models_fetched, build_config, pc, loc>>

\* build_model
BuildModel ==
    /\ call' = [NoCall EXCEPT !.op = "build"]
    /\ fetched' = NoFetch
    /\ IF ~dial_api_host.has \/ ~model_name.has \/ ~dial_api_key.has \/ ~api_version.has
       THEN built' = [kind |-> "raise", error |-> AttributeError, handle |-> NoHandle, ctor_calls |-> 0, ctor_error |-> ""]
       ELSE \E c \in {"ok"} \cup CtorErrors :
              IF c = "ok"
              THEN built' = [kind |-> "return", error |-> NoError,
                             handle |-> Handle(dial_api_host.v, model_name.v, api_version.v,
                                               dial_api_key.v, temperature, StreamOf(stream),
                                               OrNone(max_tokens)),
                             ctor_calls |-> 1, ctor_error |-> ""]
              ELSE built' = [kind |-> "raise", error |-> InitError(c), handle |-> NoHandle,
                             ctor_calls |-> 1, ctor_error |-> c]
    /\ UNCHANGED <<config, input_options, input_value, cache, build_config, pc, loc>>

\* The responses a call of fetch_models may receive: none when it returns or
\* raises before session.get.
Received(host, key, version) ==
    IF FetchModels(host, key, version, NoResponse).gets = 0 THEN {NoResponse} ELSE Responses

\* update_build_config, with refresh_models and fetch_models run to completion
UpdateBuildConfig ==
    \E field \in Fields :
        /\ built' = NoBuilt
        /\ UNCHANGED <<dial_api_host, dial_api_key, api_version, stream, temperature, max_tokens, pc, loc>>
        /\ IF field \notin RefreshFields
           THEN /\ call' = [op |-> "update", field |-> field, prev |-> model_name, again |-> FALSE]
                /\ fetched' = NoFetch
                /\ UNCHANGED <<model_name, input_options, input_value, cache, build_config>>
           ELSE \E resp \in Received(dial_api_host, dial_api_key, api_version) :
                  LET out == FetchModels(dial_api_host, dial_api_key, api_version, resp)
                      raised == out.kind = "raise"
                      \* refresh_models returns FALLBACK_MODELS from its except clause
                      models == IF raised THEN FALLBACK_MODELS ELSE out.models
                      select == ~raised /\ NeedsSelect(model_name, models)
                      name == IF select THEN Attr(models[1]) ELSE model_name
                  IN  /\ call' = [op |-> "update", field |-> field, prev |-> model_name,
                                  again |-> /\ call.op = "update"
                                            /\ call.field \in RefreshFields
                                            /\ fetched.resp = resp]
                      /\ fetched' = [resp |-> resp, out |-> out]
                      /\ input_options' = IF raised THEN input_options ELSE NewOptions(input_options, models)
                      /\ input_value' = IF select THEN models[1] ELSE input_value
                      /\ model_name' = name
                      /\ available_models' = IF raised THEN available_models ELSE models
                      /\ models_fetched' = IF raised THEN models_fetched ELSE TRUE
                      /\ build_config' = [has |-> TRUE, options |-> models,
                                          value |-> IF NeedsSelect(name, models) THEN models[1] ELSE name.v]

Next == Configure \/ BuildModel \/ UpdateBuildConfig

Spec == Init /\ [][Next]_vars

NextBuild == Configure \/ ConfigureBuild \/ BuildModel

SpecBuild == Init /\ [][NextBuild]_vars

\* ------------------------------------------- two concurrent refreshes
\* Two calls of update_build_config for a refreshing field run on the same
\* component with no lock; a step is one read or write of shared state.

\* A component with any credentials and API version, and the declared default
\* selection, which is the value and an option of the model_name input.
InitConc ==
    /\ dial_api_host \in Hosts
    /\ dial_api_key \in Keys
    /\ api_version \in Versions
    /\ model_name = Attr(FALLBACK_MODELS[1])
    /\ InitClass

shared == <<dial_api_host, dial_api_key, api_version, stream, temperature, max_tokens,
            build_config, call, fetched, built>>

Goto(p, label) == pc' = [pc EXCEPT ![p] = label]

\* models = asyncio.run(self.fetch_models()), the cache written by fetch_models
CFetch(p) ==
    /\ pc[p] = "idle"
    /\ \E resp \in Received(dial_api_host, dial_api_key, api_version) :
         LET out == FetchModels(dial_api_host, dial_api_key, api_version, resp)
             raised == out.kind = "raise"
         IN  /\ loc' = [loc EXCEPT ![p] = [resp |-> resp, out |-> out,
                                           models |-> IF raised THEN FALLBACK_MODELS ELSE out.models,
                                           config |-> NoEntry]]
             /\ available_models' = IF out.cached THEN out.models ELSE available_models
             /\ models_fetched' = IF out.cached THEN TRUE ELSE models_fetched
             /\ Goto(p, IF raised THEN "config" ELSE "options")
    /\ UNCHANGED <<shared, model_name, input_options, input_value>>

\* self.inputs[i].options = models
COptions(p) ==
    /\ pc[p] = "options"
    /\ input_options' = NewOptions(input_options, loc[p].models)
    /\ Goto(p, "test")
    /\ UNCHANGED <<shared, model_name, input_value, cache, loc>>

\* if not hasattr(self, "model_name") or self.model_name not in models
CTest(p) ==
    /\ pc[p] = "test"
    /\ Goto(p, IF NeedsSelect(model_name, loc[p].models) THEN "value" ELSE "cache")
    /\ UNCHANGED <<shared, model_name, input_options, input_value, cache, loc>>

\* self.inputs[i].value = models[0]
CValue(p) ==
    /\ pc[p] = "value"
    /\ input_value' = loc[p].models[1]
    /\ Goto(p, "attr")
    /\ UNCHANGED <<shared, model_name, input_options, cache, loc>>

\* self.model_name = models[0]
CAttr(p) ==
    /\ pc[p] = "attr"
    /\ model_name' = Attr(loc[p].models[1])
    /\ Goto(p, "cache")
    /\ UNCHANGED <<shared, input_options, input_value, cache, loc>>

\* self.__class__._available_models = models; _models_fetched = True
CCache(p) ==
    /\ pc[p] = "cache"
    /\ available_models' = loc[p].models
    /\ models_fetched' = TRUE
    /\ Goto(p, "config")
    /\ UNCHANGED <<shared, model_name, input_options, input_value, loc>>

\* the condition of the "value" entry of build_config["model_name"]
CConfig(p) ==
    /\ pc[p] = "config"
    /\ IF NeedsSelect(model_name, loc[p].models)
       THEN /\ loc' = [loc EXCEPT ![p].config = [has |-> TRUE, options |-> loc[p].models,
                                                 value |-> loc[p].models[1]]]
            /\ Goto(p, "done")
       ELSE /\ Goto(p, "read")
            /\ UNCHANGED loc
    /\ UNCHANGED <<shared, model_name, input_options, input_value, cache>>

\* the else branch of the "value" entry: self.model_name is read again
CRead(p) ==
    /\ pc[p] = "read"
    /\ loc' = [loc EXCEPT ![p].config =
                 IF model_name.has
                 THEN [has |-> TRUE, options |-> loc[p].models, value |-> model_name.v]
                 ELSE NoEntry]
    /\ Goto(p, "done")
    /\ UNCHANGED <<shared, model_name, input_options, input_value, cache>>

NextConc ==
    \E p \in Procs :
        \/ CFetch(p) \/ COptions(p) \/ CTest(p) \/ CValue(p)
        \/ CAttr(p) \/ CCache(p) \/ CConfig(p) \/ CRead(p)

SpecConc == InitConc /\ [][NextConc]_vars

\* -------------------------------------------------------------- claims
\* The last operation was update_build_config for a refreshing field, so
\* fetch_models was called.
Refreshed == call.op = "update" /\ call.field \in RefreshFields

CredentialsMissing ==
    ~dial_api_host.has \/ dial_api_host.v = <<>> \/ ~dial_api_key.has \/ dial_api_key.v = ""

\* C1: fetch_models never surfaces an exception: in every failure mode the
\* call completes by returning exactly the fallback list.
C1_ListerNeverRaises ==
    Refreshed =>
        /\ fetched.out.kind = "return"
        /\ ~fetched.out.cached => fetched.out.models = FALLBACK_MODELS

\* C2: one call of fetch_models issues no HTTP request when the host or the
\* key is absent or empty, and exactly one GET otherwise.
C2_RequestCount ==
    Refreshed => fetched.out.gets = IF CredentialsMissing THEN 0 ELSE 1

\* The ids of the entries with a non-empty id, in the order of the array.
IdsInOrder(items) ==
    LET kept == SelectSeq(items, LAMBDA e : e.has_id /\ e.id # "")
    IN  [i \in 1..Len(kept) |-> kept[i].id]

WellFormed(resp) ==
    /\ resp.net = "ok" /\ resp.status = 200 /\ resp.json = "object" /\ resp.data = "array"
    /\ \A i \in 1..Len(resp.items) : resp.items[i].dict

\* C3: for a 200 response whose body has a data array of objects with at
\* least one non-empty id, fetch_models returns the non-empty ids in the order
\* of the array, duplicates kept and entries without an id skipped; and the
\* returned list differs from the fallback list only in that case.
C3_ExtractedIds ==
    (Refreshed /\ fetched.out.kind = "return") =>
        /\ (WellFormed(fetched.resp) /\ IdsInOrder(fetched.resp.items) # <<>>)
               => fetched.out.models = IdsInOrder(fetched.resp.items)
        /\ fetched.out.models # FALLBACK_MODELS
               => /\ WellFormed(fetched.resp)
                  /\ fetched.out.gets = 1
                  /\ IdsInOrder(fetched.resp.items) # <<>>
                  /\ fetched.out.models = IdsInOrder(fetched.resp.items)

C3_Witness ==
    /\ Refreshed
    /\ fetched.resp.items = <<Entry("gpt-4o"), Entry("gpt-4")>>
    /\ fetched.out.models = <<"gpt-4o", "gpt-4">>

\* C4: a refresh whose fetch ends in the fallback (it cached nothing) leaves
\* the remembered list _available_models and the flag _models_fetched
\* unchanged.
C4_FallbackKeepsCache ==
    [][(call'.op = "update" /\ call'.field \in RefreshFields /\ ~fetched'.out.cached)
          => UNCHANGED cache]_vars

\* C5: after update_build_config for a refreshing field, the returned
\* model_name entry has the fetched list as options, its value is the first
\* option when the model selected before is not an option and the model
\* selected before otherwise, and self.model_name has the same value.
C5_SelectionFollowsOptions ==
    Refreshed =>
        /\ build_config.has
        /\ fetched.out.kind = "return" => build_config.options = fetched.out.models
        /\ build_config.value = IF NeedsSelect(call.prev, build_config.options)
                                THEN build_config.options[1]
                                ELSE call.prev.v
        /\ model_name = Attr(build_config.value)

\* C6: the handle build_model returns carries the configured endpoint,
\* deployment, API version, key, temperature and streaming flag (false when
\* there is no stream attribute), and max_tokens None for a configured 0 and
\* the configured value when it is positive.
C6_HandleMatchesConfig ==
    built.kind = "return" =>
        /\ built.handle.azure_endpoint = dial_api_host.v
        /\ built.handle.azure_deployment = model_name.v
        /\ built.handle.api_version = api_version.v
        /\ built.handle.api_key = dial_api_key.v
        /\ built.handle.temperature = temperature
        /\ built.handle.streaming = (stream.has /\ stream.v)
        /\ max_tokens = 0 => built.handle.max_tokens.none
        /\ max_tokens > 0 => /\ ~built.handle.max_tokens.none
                             /\ built.handle.max_tokens.val = max_tokens

C6_Witness ==
    /\ built.kind = "return"
    /\ max_tokens = 0
    /\ ~stream.has
    /\ temperature = 0
    /\ built.handle.azure_deployment = "gpt-4"

\* C7: when the construction of the client fails, build_model has made one
\* construction attempt, raises the generic ValueError carrying the original
\* message, returns no handle, and leaves the configuration and the
\* remembered list unchanged.
C7_BuildFailure ==
    [][(call'.op = "build" /\ built'.ctor_error # "")
          => /\ built'.kind = "raise"
             /\ built'.ctor_calls = 1
             /\ built'.error.exc = "ValueError"
             /\ built'.error.text = "Could not initialize DIAL API client: "
             /\ built'.error.cause = built'.ctor_error
             /\ built'.handle = NoHandle
             /\ UNCHANGED <<config, cache, input_options, input_value>>]_vars

C7_Witness ==
    /\ call.op = "build"
    /\ built.kind = "raise"
    /\ built.ctor_error = "validation error"
    /\ available_models = <<"gpt-4", "gpt-4o">>

\* C8: a refresh that follows a refresh with the same gateway response
\* leaves the option list, the selected model, the remembered list and the
\* returned build_config as the first refresh left them.
C8_RefreshIdempotent ==
    [][(call'.op = "update" /\ call'.again)
          => UNCHANGED <<input_options, input_value, model_name, cache, build_config>>]_vars

C8_Witness ==
    /\ Refreshed
    /\ call.again
    /\ fetched.out.cached
    /\ input_options = <<"gpt-4", "gpt-4o">>

\* C9: once two concurrent refreshes have both completed, the selected model
\* (self.model_name and the input's value) is one of the input's options, and
\* the options are the list returned to one of the two refreshes.
C9_ConcurrentSelection ==
    (\A p \in Procs : pc[p] = "done") =>
        /\ model_name.has
        /\ model_name.v \in Range(input_options)
        /\ input_value \in Range(input_options)
        /\ \E p \in Procs : input_options = loc[p].models

\* C10: update_build_config for a field that is not a refreshing one returns
\* build_config unchanged, issues no HTTP request, and leaves the options,
\* the selected model, the remembered list and the fetched flag unchanged.
C10_OtherFieldNoEffect ==
    [][(call'.op = "update" /\ call'.field \notin {"dial_api_host", "dial_api_key", "model_name"})
          => /\ UNCHANGED <<build_config, input_options, input_value, model_name, cache>>
             /\ fetched'.out.gets = 0
             /\ fetched'.resp = NoResponse]_vars

C10_Witness ==
    /\ call.op = "update"
    /\ call.field = "api_version"
    /\ ~CredentialsMissing
    /\ api_version.has
    /\ available_models = <<"gpt-4">>

====
